---------------------------- MODULE Spec2Model ----------------------------
(***************************************************************************)
(* State-machine model of ausbildungsnachweis_converter.py:                *)
(*   - AusbildungsnachweisConverter.parse_dates_from_filename, parse_date, *)
(*     clean_text and convert_excel_to_markdown (with its closure          *)
(*     flush_day), and                                                     *)
(*   - the batch loop of main().                                           *)
(* Strings are sequences of one-character strings, so that the regular     *)
(* expression, str.split, str.rstrip and the whitespace normalisation are  *)
(* computed character by character.  Row and column indices are 0-based as *)
(* in the source; a TLA+ sequence position is the Python index plus one.   *)
(***************************************************************************)
EXTENDS Integers, Sequences, FiniteSets, TLC

(***************************************************************************)
(* Bounds of the model.                                                    *)
(***************************************************************************)
\* longest data part of a grid whose rows are drawn from every row shape
MaxRows == 3
\* longest data part of a grid whose rows are drawn from the core row shapes
MaxLong == 5
\* most days of a regular grid (date row, activity rows, hours row)
MaxDays == 2
\* most input files of a batch
MaxFiles == 2

(***************************************************************************)
(* Characters and strings.                                                 *)
(***************************************************************************)
Digits == <<"0", "1", "2", "3", "4", "5", "6", "7", "8", "9">>

IsDigit(c) == \E k \in 1..10 : Digits[k] = c

DigitVal(c) == (CHOOSE k \in 1..10 : Digits[k] = c) - 1

\* str.isspace for the characters the model uses
IsSpace(c) == c \in {" ", "\t", "\n"}

\* the character at 1-based position k of s, "" past either end
At(s, k) == IF k >= 1 /\ k <= Len(s) THEN s[k] ELSE ""

\* two decimal digits at positions k, k+1
TwoDigits(s, k) == IsDigit(At(s, k)) /\ IsDigit(At(s, k + 1))

\* int() of a string of decimal digits
RECURSIVE DecVal(_)
DecVal(s) ==
    IF s = <<>> THEN 0
    ELSE 10 * DecVal(SubSeq(s, 1, Len(s) - 1)) + DigitVal(s[Len(s)])

AllDigits(s) == s # <<>> /\ \A k \in 1..Len(s) : IsDigit(s[k])

\* needle in hay (Python's `in` on str)
Contains(hay, needle) ==
    \E k \in 1..(Len(hay) - Len(needle) + 1) :
        SubSeq(hay, k, k + Len(needle) - 1) = needle

\* str.rstrip(c)
RECURSIVE RStrip(_, _)
RStrip(s, c) ==
    IF s # <<>> /\ s[Len(s)] = c THEN RStrip(SubSeq(s, 1, Len(s) - 1), c) ELSE s

\* str.replace(a, b) for single characters
RECURSIVE Replace(_, _, _)
Replace(s, a, b) ==
    IF s = <<>> THEN <<>>
    ELSE <<IF s[1] = a THEN b ELSE s[1]>> \o Replace(Tail(s), a, b)

\* str.split(sep) for a single-character separator: the list of fields
RECURSIVE SplitOn(_, _)
SplitOn(s, sep) ==
    IF \A k \in 1..Len(s) : s[k] # sep THEN <<s>>
    ELSE LET k == CHOOSE j \in 1..Len(s) :
                      s[j] = sep /\ \A h \in 1..(j - 1) : s[h] # sep
         IN  <<SubSeq(s, 1, k - 1)>> \o SplitOn(SubSeq(s, k + 1, Len(s)), sep)

\* str.split(): the whitespace-separated words
RECURSIVE Words(_)
Words(s) ==
    IF \A k \in 1..Len(s) : IsSpace(s[k]) THEN <<>>
    ELSE LET a == CHOOSE j \in 1..Len(s) :
                      ~IsSpace(s[j]) /\ \A h \in 1..(j - 1) : IsSpace(s[h])
             b == CHOOSE j \in a..Len(s) :
                      /\ \A h \in a..j : ~IsSpace(s[h])
                      /\ (j = Len(s) \/ IsSpace(s[j + 1]))
         IN  <<SubSeq(s, a, b)>> \o Words(SubSeq(s, b + 1, Len(s)))

\* " ".join(words)
RECURSIVE JoinSpace(_)
JoinSpace(ws) ==
    IF ws = <<>> THEN <<>>
    ELSE IF Len(ws) = 1 THEN ws[1]
    ELSE ws[1] \o <<" ">> \o JoinSpace(Tail(ws))

\* Path(filename).stem: the name without its last suffix
Stem(name) ==
    LET dots == {k \in 1..Len(name) : name[k] = "."}
    IN  IF dots = {} THEN name
        ELSE LET k == CHOOSE j \in dots : \A h \in dots : h <= j
             IN  IF k > 1 /\ k < Len(name) THEN SubSeq(name, 1, k - 1) ELSE name

(***************************************************************************)
(* Dates.  A date is <<year, month, day>>; None is the empty tuple.        *)
(***************************************************************************)
None == <<>>

IsLeap(y) == (y % 4 = 0) /\ ((y % 100 # 0) \/ (y % 400 = 0))

DaysInMonth(y, m) ==
    IF m = 2 THEN (IF IsLeap(y) THEN 29 ELSE 28)
    ELSE IF m \in {4, 6, 9, 11} THEN 30 ELSE 31

\* datetime comparison on dates
DateLE(a, b) ==
    \/ a[1] < b[1]
    \/ a[1] = b[1] /\ a[2] < b[2]
    \/ a[1] = b[1] /\ a[2] = b[2] /\ a[3] <= b[3]

\* datetime._days_before_year
DaysBeforeYear(year) ==
    LET y == year - 1 IN y * 365 + (y \div 4) - (y \div 100) + (y \div 400)

RECURSIVE DaysBeforeMonth(_, _)
DaysBeforeMonth(y, m) ==
    IF m = 1 THEN 0 ELSE DaysBeforeMonth(y, m - 1) + DaysInMonth(y, m - 1)

\* datetime._ymd2ord
Ymd2Ord(d) == DaysBeforeYear(d[1]) + DaysBeforeMonth(d[1], d[2]) + d[3]

\* datetime._isoweek1monday
IsoWeek1Monday(year) ==
    LET firstday == Ymd2Ord(<<year, 1, 1>>)
        firstweekday == (firstday + 6) % 7
        week1monday == firstday - firstweekday
    IN  IF firstweekday > 3 THEN week1monday + 7 ELSE week1monday

\* date.isocalendar(): <<iso year, iso week, iso weekday>>
IsoCalendar(d) ==
    LET today == Ymd2Ord(d)
        w0 == today - IsoWeek1Monday(d[1])
    IN  IF w0 < 0
        THEN LET w == today - IsoWeek1Monday(d[1] - 1)
             IN  <<d[1] - 1, (w \div 7) + 1, (w % 7) + 1>>
        ELSE IF (w0 \div 7) >= 52 /\ today >= IsoWeek1Monday(d[1] + 1)
        THEN <<d[1] + 1, 1, (w0 % 7) + 1>>
        ELSE <<d[1], (w0 \div 7) + 1, (w0 % 7) + 1>>


(***************************************************************************)
(* parse_dates_from_filename: the regular expression                       *)
(*   _(\d{2}\.\d{2}\.?)(?:\.\d{2})?\s*[-]\s*(\d{2}[.\-]\d{2}\.?)(?:\.\d{2})? *)
(* matched by re.search (leftmost start, greedy with backtracking).        *)
(***************************************************************************)
NoMatch == [ok |-> FALSE, g1 |-> <<>>, g2 |-> <<>>]

\* \s*: the first position from q on that holds no whitespace
RECURSIVE SkipSpaces(_, _)
SkipSpaces(b, q) == IF IsSpace(At(b, q)) THEN SkipSpaces(b, q + 1) ELSE q

\* \s*[-]\s*(\d{2}[.\-]\d{2}\.?)(?:\.\d{2})? from position q: group 2.  The
\* two optional tails are greedy and the pattern ends after them, so the
\* trailing dot is in group 2 whenever there is one.
MatchRest(b, q) ==
    LET h == SkipSpaces(b, q)
        g == SkipSpaces(b, h + 1)
    IN  IF /\ At(b, h) = "-"
           /\ TwoDigits(b, g)
           /\ At(b, g + 2) \in {".", "-"}
           /\ TwoDigits(b, g + 3)
        THEN [ok |-> TRUE,
              g2 |-> SubSeq(b, g, IF At(b, g + 5) = "." THEN g + 5 ELSE g + 4)]
        ELSE [ok |-> FALSE, g2 |-> <<>>]

\* the match that starts at the "_" in position p, if any: the alternatives
\* of \.? and (?:\.\d{2})? are tried in the order of a backtracking matcher
\* (take, take), (take, skip), (skip, take), (skip, skip)
MatchAt(b, p) ==
    LET q == p + 6
        dot == At(b, q) = "."
        a1 == IF dot /\ At(b, q + 1) = "." /\ TwoDigits(b, q + 2)
              THEN MatchRest(b, q + 4) ELSE [ok |-> FALSE, g2 |-> <<>>]
        a2 == IF dot THEN MatchRest(b, q + 1) ELSE [ok |-> FALSE, g2 |-> <<>>]
        a3 == IF dot /\ TwoDigits(b, q + 1)
              THEN MatchRest(b, q + 3) ELSE [ok |-> FALSE, g2 |-> <<>>]
        a4 == MatchRest(b, q)
    IN  IF ~(/\ At(b, p) = "_"
             /\ TwoDigits(b, p + 1)
             /\ At(b, p + 3) = "."
             /\ TwoDigits(b, p + 4))
        THEN NoMatch
        ELSE IF a1.ok THEN [ok |-> TRUE, g1 |-> SubSeq(b, p + 1, p + 6), g2 |-> a1.g2]
        ELSE IF a2.ok THEN [ok |-> TRUE, g1 |-> SubSeq(b, p + 1, p + 6), g2 |-> a2.g2]
        ELSE IF a3.ok THEN [ok |-> TRUE, g1 |-> SubSeq(b, p + 1, p + 5), g2 |-> a3.g2]
        ELSE IF a4.ok THEN [ok |-> TRUE, g1 |-> SubSeq(b, p + 1, p + 5), g2 |-> a4.g2]
        ELSE NoMatch

\* re.search: the match with the leftmost start
ReSearch(b) ==
    LET starts == {p \in 1..Len(b) : MatchAt(b, p).ok}
    IN  IF starts = {} THEN NoMatch
        ELSE CHOOSE m \in {MatchAt(b, p) :
                            p \in {q \in starts : \A r \in starts : q <= r}} : TRUE

\* lines 33-40: the result for the match m in base
MatchGroups(base, m) ==
    IF ~m.ok
    THEN [start_raw |-> None, end_raw |-> None, base |-> None]
    ELSE [start_raw |-> RStrip(m.g1, "."),
          end_raw |-> RStrip(Replace(m.g2, "-", "."), "."),
          base |-> base]

\* lines 31-40 for the stem of the name
SearchBase(base) ==
    CHOOSE r \in {MatchGroups(base, m) : m \in {ReSearch(base)}} : TRUE

\* parse_dates_from_filename: (start_raw, end_raw, base), or (None, None, None)
parse_dates_from_filename(filename) ==
    CHOOSE r \in {SearchBase(base) : base \in {Stem(filename)}} : TRUE

(***************************************************************************)
(* parse_date and datetime.strptime.  A year is an integer; the string the *)
(* source formats it into, str(int(...)) or "2024" or default_year, has    *)
(* the four digits %Y asks for exactly when the integer is in 1000..9999.  *)
(***************************************************************************)
DateError == [ok |-> FALSE, date |-> None]

\* the datetime built from parsed fields: ValueError unless it is a real date
MakeDate(y, m, d) ==
    IF m \in 1..12 /\ d >= 1 /\ d <= DaysInMonth(y, m)
    THEN [ok |-> TRUE, date |-> <<y, m, d>>]
    ELSE DateError

\* a %d or %m field of the string: one or two digits
FieldOk(s) == AllDigits(s) /\ Len(s) <= 2

\* datetime.strptime(date_str, "%d.%m.%y"): 00..68 are 2000.., 69..99 are 1900..
StrptimeShortYear(parts) ==
    IF FieldOk(parts[1]) /\ FieldOk(parts[2]) /\ AllDigits(parts[3]) /\ Len(parts[3]) = 2
    THEN LET yy == DecVal(parts[3])
         IN  MakeDate(IF yy < 69 THEN 2000 + yy ELSE 1900 + yy,
                      DecVal(parts[2]), DecVal(parts[1]))
    ELSE DateError

\* datetime.strptime(f"{date_str}.{default_year}", "%d.%m.%Y")
StrptimeLongYear(parts, year) ==
    IF FieldOk(parts[1]) /\ FieldOk(parts[2]) /\ year >= 1000 /\ year <= 9999
    THEN MakeDate(year, DecVal(parts[2]), DecVal(parts[1]))
    ELSE DateError

parse_date(date_str, default_year) ==
    LET parts == SplitOn(date_str, ".")
    IN  IF Len(parts) = 3 THEN StrptimeShortYear(parts)
        ELSE IF Len(parts) = 2 THEN StrptimeLongYear(parts, default_year)
        ELSE DateError

(***************************************************************************)
(* The cell grid that pd.read_excel(header=None) returns.  A cell is empty *)
(* (NaN), a text, a timestamp or a number; a number is kept as twice its   *)
(* value (v = 15 is 7.5), so that halves are representable.  A file is its *)
(* name and its DataFrame: ncols columns and a sequence of rows, of which  *)
(* the model keeps the columns the source reads (1, 2, 7 and 11).          *)
(***************************************************************************)
Empty == [t |-> "Empty", s |-> <<>>, d |-> None, v |-> 0]

Text(s) == [t |-> "Text", s |-> s, d |-> None, v |-> 0]

DateTime(d) == [t |-> "DateTime", s |-> <<>>, d |-> d, v |-> 0]

Number(v) == [t |-> "Number", s |-> <<>>, d |-> None, v |-> v]

Row(c1, c2, c7, c11) == [c1 |-> c1, c2 |-> c2, c7 |-> c7, c11 |-> c11]

\* pd.isna / pd.notna
IsNa(cell) == cell.t = "Empty"

NotNa(cell) == ~IsNa(cell)

\* str.strip() of whitespace at both ends
RECURSIVE StripSpaces(_)
StripSpaces(s) ==
    IF s # <<>> /\ IsSpace(s[1]) THEN StripSpaces(Tail(s))
    ELSE IF s # <<>> /\ IsSpace(s[Len(s)]) THEN StripSpaces(SubSeq(s, 1, Len(s) - 1))
    ELSE s

\* float(cell): ok with a finite value, ok with an infinite one (the text
\* "inf"), or an exception (any other text, a timestamp)
Float(cell) ==
    IF cell.t = "Number" THEN [ok |-> TRUE, inf |-> FALSE, v |-> cell.v]
    ELSE IF cell.t = "Text" /\ AllDigits(StripSpaces(cell.s))
    THEN [ok |-> TRUE, inf |-> FALSE, v |-> 2 * DecVal(StripSpaces(cell.s))]
    ELSE IF cell.t = "Text" /\ StripSpaces(cell.s) = <<"i", "n", "f">>
    THEN [ok |-> TRUE, inf |-> TRUE, v |-> 0]
    ELSE [ok |-> FALSE, inf |-> FALSE, v |-> 0]

\* int() of a finite float: truncation toward zero
PyInt(v) == IF v >= 0 THEN v \div 2 ELSE -((-v) \div 2)

\* int(cell) of the year cell: a number is truncated, a text of digits is
\* read, anything else raises
IntOfCell(cell) ==
    IF cell.t = "Number" THEN [ok |-> TRUE, v |-> PyInt(cell.v)]
    ELSE IF cell.t = "Text" /\ AllDigits(StripSpaces(cell.s))
    THEN [ok |-> TRUE, v |-> DecVal(StripSpaces(cell.s))]
    ELSE [ok |-> FALSE, v |-> 0]

\* clean_text: "" for NaN, else the words of str(text) joined by one space
\* (the cells it is applied to are empty or texts)
clean_text(cell) ==
    IF IsNa(cell) THEN <<>> ELSE JoinSpace(Words(StripSpaces(cell.s)))

\* len(df)
NRows(f) == Len(f.rows)

(***************************************************************************)
(* The Markdown lines.  A line is a record: its kind t and the values the  *)
(* f-string formats into it (a text s, dates d and e, a number n).         *)
(***************************************************************************)
Line(t, s, d, e, n) == [t |-> t, s |-> s, d |-> d, e |-> e, n |-> n]

Blank == Line("blank", <<>>, None, None, 0)

\* default_year of AusbildungsnachweisConverter.__init__, as main() builds it
DefaultYear == 2025

DefaultName == <<"Nicolay, Dimitrios">>

DefaultCourse == <<"Fachinformatiker SI - U27B (IHK)">>

(***************************************************************************)
(* convert_excel_to_markdown up to the row scan (lines 67-124).            *)
(***************************************************************************)
\* lines 75-82: the year from the metadata cell, the file name or the default
YearFromName(f) ==
    IF Contains(f.name, <<".", "2", "4">>) THEN 2024 ELSE DefaultYear

ActualYear(f) ==
    IF f.ncols > 11 /\ NRows(f) < 3 THEN [err |-> "IndexError", year |-> 0]
    ELSE IF f.ncols > 11 /\ NotNa(f.rows[3].c11)
    THEN IF IntOfCell(f.rows[3].c11).ok
         THEN [err |-> "", year |-> IntOfCell(f.rows[3].c11).v]
         ELSE [err |-> "", year |-> YearFromName(f)]
    ELSE [err |-> "", year |-> YearFromName(f)]

\* lines 90-96: a header value, with its default
HeaderValue(f, r, default) ==
    IF f.ncols > 7
    THEN IF clean_text(f.rows[r + 1].c7) = <<>> THEN default
         ELSE clean_text(f.rows[r + 1].c7)
    ELSE default

\* the scan from row 0, whatever the marker column holds
ScanFromTop(f) == 0

\* lines 101-109
DataStartRow(f) ==
    LET marked == {i \in 0..(NRows(f) - 1) :
                       /\ f.ncols > 1
                       /\ f.rows[i + 1].c1.t = "Text"
                       /\ Contains(f.rows[i + 1].c1.s, <<"T", "a", "g">>)}
    IN  IF marked = {} THEN 0
        ELSE (CHOOSE i \in marked : \A j \in marked : i <= j) + 1

\* lines 113-120
HeaderLines(iso_week, start_dt, end_dt, name, course, year) ==
    << Line("title", <<>>, start_dt, end_dt, iso_week),
       Blank,
       Line("name", name, None, None, 0),
       Line("course", course, None, None, 0),
       Line("year", <<>>, None, None, year),
       Blank,
       Line("rule", <<>>, None, None, 0),
       Blank >>

HeadError(msg) ==
    [err |-> msg, start_dt |-> None, end_dt |-> None, iso_week |-> 0,
     data_start_row |-> 0, md_lines |-> <<>>]

\* lines 84-120, with the dates s and e that parse_date returned
HeadFromDates(f, year, s, e) ==
    IF ~s.ok \/ ~e.ok THEN HeadError("ValueError")
    ELSE IF f.ncols > 7 /\ NRows(f) < 2 THEN HeadError("IndexError")
    ELSE [err |-> "", start_dt |-> s.date, end_dt |-> e.date,
          iso_week |-> IsoCalendar(s.date)[2],
          data_start_row |-> DataStartRow(f),
          md_lines |-> HeaderLines(IsoCalendar(s.date)[2], s.date, e.date,
                                   HeaderValue(f, 0, DefaultName),
                                   HeaderValue(f, 1, DefaultCourse),
                                   year)]

\* lines 67-120, with the tokens p of the name and the year y
HeadFromTokens(f, p, y) ==
    IF p.start_raw = None THEN HeadError("Cannot parse dates from filename")
    ELSE IF y.err # "" THEN HeadError(y.err)
    ELSE CHOOSE r \in {HeadFromDates(f, y.year, s, e) :
                           s \in {parse_date(p.start_raw, y.year)},
                           e \in {parse_date(p.end_raw, y.year)}} : TRUE

\* lines 67-120: the first exception raised, or the values the scan starts from
ConvertHead(f) ==
    CHOOSE r \in {HeadFromTokens(f, p, y) :
                      p \in {parse_dates_from_filename(f.name)},
                      y \in {ActualYear(f)}} : TRUE

(***************************************************************************)
(* The row scan (lines 122-175).  The closure variables are a record       *)
(* [current_date, daily_activities, pending_hours, md_lines, err].         *)
(***************************************************************************)
\* flush_day without the test of daily_activities: a day is written as soon
\* as it has a date.  The claims about empty days must tell it from flush_day.
FlushAnyDay(current_date, daily_activities, pending_hours, md_lines) ==
    IF current_date = None
    THEN [err |-> "", md_lines |-> md_lines]
    ELSE [err |-> "",
          md_lines |->
              md_lines
              \o <<Line("h2", <<>>, current_date, None, 0), Blank>>
              \o [k \in 1..Len(daily_activities) |->
                      Line("bullet", daily_activities[k], None, None, 0)]
              \o <<Blank>>]

\* lines 126-143: md_lines after flush_day, or the exception int() raises
flush_day(current_date, daily_activities, pending_hours, md_lines) ==
    IF current_date = None \/ daily_activities = <<>>
    THEN [err |-> "", md_lines |-> md_lines]
    ELSE IF pending_hours # None /\ pending_hours[1].inf
    THEN [err |-> "OverflowError", md_lines |-> md_lines]
    ELSE [err |-> "",
          md_lines |->
              md_lines
              \o <<Line("h2", <<>>, current_date, None, 0), Blank>>
              \o [k \in 1..Len(daily_activities) |->
                      Line("bullet", daily_activities[k], None, None, 0)]
              \o (IF pending_hours # None
                  THEN <<Blank, Line("hours", <<>>, None, None, PyInt(pending_hours[1].v))>>
                  ELSE <<>>)
              \o <<Blank>>]

\* lines 149-151
DateCell(f, row) == IF f.ncols > 1 THEN row.c1 ELSE Empty

ActivityCell(f, row) == IF f.ncols > 2 THEN row.c2 ELSE Empty

HoursCell(f, row) == IF f.ncols > 11 THEN row.c11 ELSE Empty

\* a date row that keeps the buffer when no day was open: what the first
\* day would receive if the activities before it were not dropped
OpenDayKeepBuffer(loc, date_cell) ==
    CHOOSE r \in {[current_date |-> date_cell.d,
                   daily_activities |-> IF loc.current_date = None
                                        THEN loc.daily_activities ELSE <<>>,
                   pending_hours |-> None,
                   md_lines |-> fl.md_lines,
                   err |-> fl.err] :
                  fl \in {flush_day(loc.current_date, loc.daily_activities,
                                    loc.pending_hours, loc.md_lines)}} : TRUE

\* a date row that opens the new day without writing the open one
OpenDayNoFlush(loc, date_cell) ==
    [current_date |-> date_cell.d, daily_activities |-> <<>>,
     pending_hours |-> None, md_lines |-> loc.md_lines, err |-> ""]

\* lines 153-158: a row with a date cell
OpenDay(loc, date_cell) ==
    CHOOSE r \in {[current_date |-> date_cell.d,
                   daily_activities |-> <<>>,
                   pending_hours |-> None,
                   md_lines |-> fl.md_lines,
                   err |-> fl.err] :
                  fl \in {flush_day(loc.current_date, loc.daily_activities,
                                    loc.pending_hours, loc.md_lines)}} : TRUE

\* the activity put in front of the buffer instead of behind it
AddActivityFirst(daily_activities, activity_cell) ==
    IF NotNa(activity_cell) /\ clean_text(activity_cell) # <<>>
    THEN <<clean_text(activity_cell)>> \o daily_activities
    ELSE daily_activities

\* lines 160-163: daily_activities after the activity cell
AddActivity(daily_activities, activity_cell) ==
    IF NotNa(activity_cell) /\ clean_text(activity_cell) # <<>>
    THEN Append(daily_activities, clean_text(activity_cell))
    ELSE daily_activities

\* lines 166-169: pending_hours after the try
ParseHours(hours_cell) ==
    IF Float(hours_cell).ok
    THEN <<[inf |-> Float(hours_cell).inf, v |-> Float(hours_cell).v]>>
    ELSE None

\* an hours cell that writes the day but leaves it open
HoursKeepDayOpen(loc, acts, hours_cell) ==
    CHOOSE r \in {[current_date |-> loc.current_date,
                   daily_activities |-> acts,
                   pending_hours |-> None,
                   md_lines |-> fl.md_lines,
                   err |-> fl.err] :
                  fl \in {flush_day(loc.current_date, acts, ParseHours(hours_cell),
                                    loc.md_lines)}} : TRUE

\* an hours cell whose float() is not inside a try: the exception leaves the loop
CloseByHoursStrict(loc, acts, hours_cell) ==
    IF ~Float(hours_cell).ok
    THEN [loc EXCEPT !.err = "ValueError"]
    ELSE CHOOSE r \in {[current_date |-> None,
                        daily_activities |-> <<>>,
                        pending_hours |-> None,
                        md_lines |-> fl.md_lines,
                        err |-> fl.err] :
                       fl \in {flush_day(loc.current_date, acts,
                                         ParseHours(hours_cell), loc.md_lines)}} : TRUE

\* an hours cell that writes the day and empties the buffer but keeps the date
CloseByHoursKeepDate(loc, acts, hours_cell) ==
    CHOOSE r \in {[current_date |-> loc.current_date,
                   daily_activities |-> <<>>,
                   pending_hours |-> None,
                   md_lines |-> fl.md_lines,
                   err |-> fl.err] :
                  fl \in {flush_day(loc.current_date, acts, ParseHours(hours_cell),
                                    loc.md_lines)}} : TRUE

\* lines 165-173: the hours cell closes the open day
CloseByHours(loc, acts, hours_cell) ==
    CHOOSE r \in {[current_date |-> None,
                   daily_activities |-> <<>>,
                   pending_hours |-> None,
                   md_lines |-> fl.md_lines,
                   err |-> fl.err] :
                  fl \in {flush_day(loc.current_date, acts, ParseHours(hours_cell),
                                    loc.md_lines)}} : TRUE

\* one iteration with the hours cell handled before the activity cell: the
\* activity of a row that closes a day comes too late for that day
ProcessRowHoursFirst(f, loc, row) ==
    IF NotNa(DateCell(f, row)) /\ DateCell(f, row).t = "DateTime"
    THEN OpenDay(loc, DateCell(f, row))
    ELSE CHOOSE r \in {[closed EXCEPT !.daily_activities =
                            AddActivity(closed.daily_activities, ActivityCell(f, row))] :
                       closed \in {IF NotNa(HoursCell(f, row)) /\ loc.current_date # None
                                   THEN CloseByHours(loc, loc.daily_activities,
                                                     HoursCell(f, row))
                                   ELSE loc}} : TRUE

\* one iteration without the continue of line 158: the activity and hours
\* cells of a date row are applied to the day that the row has just opened
ProcessRowNoContinue(f, loc, row) ==
    CHOOSE r \in {IF NotNa(HoursCell(f, row)) /\ base.current_date # None
                  THEN CloseByHours(base, AddActivity(base.daily_activities,
                                                      ActivityCell(f, row)),
                                    HoursCell(f, row))
                  ELSE [base EXCEPT !.daily_activities =
                            AddActivity(base.daily_activities, ActivityCell(f, row))] :
                  base \in {IF NotNa(DateCell(f, row)) /\ DateCell(f, row).t = "DateTime"
                            THEN OpenDay(loc, DateCell(f, row))
                            ELSE loc}} : TRUE

\* lines 147-173: one iteration of the loop
ProcessRow(f, loc, row) ==
    IF NotNa(DateCell(f, row)) /\ DateCell(f, row).t = "DateTime"
    THEN OpenDay(loc, DateCell(f, row))
    ELSE CHOOSE r \in {IF NotNa(HoursCell(f, row)) /\ loc.current_date # None
                       THEN CloseByHours(loc, acts, HoursCell(f, row))
                       ELSE [loc EXCEPT !.daily_activities = acts] :
                       acts \in {AddActivity(loc.daily_activities,
                                             ActivityCell(f, row))}} : TRUE

\* a conversion that returns without the flush_day after the loop
SkipFinalFlush(current_date, daily_activities, pending_hours, md_lines) ==
    [err |-> "", md_lines |-> md_lines]

\* line 175: the flush_day after the loop
FinalFlush(current_date, daily_activities, pending_hours, md_lines) ==
    flush_day(current_date, daily_activities, pending_hours, md_lines)

\* str(n) of a natural number
RECURSIVE Str(_)
Str(n) ==
    IF n < 10 THEN <<Digits[n + 1]>>
    ELSE Str(n \div 10) \o <<Digits[(n % 10) + 1]>>

\* f"{n:02d}": at least two digits
Pad2(n) == IF n < 10 THEN <<"0">> \o Str(n) ELSE Str(n)

\* strftime('%d.%m')
DayMonth(d) == Pad2(d[3]) \o <<".">> \o Pad2(d[2])

\* the name with the ISO year of the start date in the place of its year
OutFilenameIsoYear(start_dt, end_dt, iso_week) ==
    Str(IsoCalendar(start_dt)[1]) \o <<"-", "K", "W">> \o Pad2(iso_week)
    \o <<"-", "A", "u", "s", "b", "i", "l", "d", "u", "n", "g", "s", "n", "a", "c",
         "h", "w", "e", "i", "s", "-">>
    \o DayMonth(start_dt) \o <<"-">> \o DayMonth(end_dt) \o <<".", "m", "d">>

\* line 177: the output file name
OutFilename(start_dt, end_dt, iso_week) ==
    Str(start_dt[1]) \o <<"-", "K", "W">> \o Pad2(iso_week)
    \o <<"-", "A", "u", "s", "b", "i", "l", "d", "u", "n", "g", "s", "n", "a", "c",
         "h", "w", "e", "i", "s", "-">>
    \o DayMonth(start_dt) \o <<"-">> \o DayMonth(end_dt) \o <<".", "m", "d">>

\* line 178: "\n".join(md_lines).strip() drops the blank lines at the end
RECURSIVE StripLines(_)
StripLines(lines) ==
    IF lines # <<>> /\ lines[Len(lines)].t = "blank"
    THEN StripLines(SubSeq(lines, 1, Len(lines) - 1))
    ELSE lines

\* lines 122-124
StartScan(md_lines) ==
    [current_date |-> None, daily_activities |-> <<>>, pending_hours |-> None,
     md_lines |-> md_lines, err |-> ""]

\* lines 146-175: the loop from row i on, then the last flush_day
RECURSIVE ScanFrom(_, _, _)
ScanFrom(f, loc, i) ==
    IF loc.err # "" THEN loc
    ELSE IF i < NRows(f)
    THEN CHOOSE r \in {ScanFrom(f, next, i + 1) :
                           next \in {ProcessRow(f, loc, f.rows[i + 1])}} : TRUE
    ELSE CHOOSE r \in {[loc EXCEPT !.md_lines = fl.md_lines, !.err = fl.err] :
                           fl \in {FinalFlush(loc.current_date, loc.daily_activities,
                                              loc.pending_hours, loc.md_lines)}} : TRUE

\* convert_excel_to_markdown as a function of the file: the exception it
\* raises, or (out_filename, markdown_content)
ConvertResult(h, r) ==
    IF r.err # "" THEN [err |-> r.err, out |-> None, content |-> <<>>]
    ELSE [err |-> "", out |-> <<OutFilename(h.start_dt, h.end_dt, h.iso_week)>>,
          content |-> StripLines(r.md_lines)]

ConvertFrom(f, h) ==
    IF h.err # "" THEN [err |-> h.err, out |-> None, content |-> <<>>]
    ELSE CHOOSE c \in {ConvertResult(h, r) :
                           r \in {ScanFrom(f, StartScan(h.md_lines),
                                           h.data_start_row)}} : TRUE

Convert(f) == CHOOSE c \in {ConvertFrom(f, h) : h \in {ConvertHead(f)}} : TRUE

(***************************************************************************)
(* The inputs: the files of the input directory.                           *)
(***************************************************************************)
Prefix ==
    <<"A", "u", "s", "b", "i", "l", "d", "u", "n", "g", "s", "n", "a", "c", "h",
      "w", "e", "i", "s", "U", "2", "7", "_">>

Ext == <<".", "x", "l", "s", "x">>

\* a file name that main()'s glob AusbildungsnachweisU27_*.xlsx finds
NameOf(body) == Prefix \o body \o Ext

File(name, ncols, rows) == [name |-> name, ncols |-> ncols, rows |-> rows]

\* the sequences over S of length at most n
SeqsUpTo(S, n) == UNION {[1..m -> S] : m \in 0..n}

RECURSIVE Flatten(_)
Flatten(ss) == IF ss = <<>> THEN <<>> ELSE ss[1] \o Flatten(Tail(ss))

D1 == <<2025, 3, 3>>

D2 == <<2025, 3, 4>>

ActA == <<"a">>

ActB == <<" ", "b", " ", " ", "c", " ">>

RDate(d) == Row(DateTime(d), Empty, Empty, Empty)

RAct(s) == Row(Empty, Text(s), Empty, Empty)

RHours(c) == Row(Empty, Empty, Empty, c)

EmptyRow == Row(Empty, Empty, Empty, Empty)

MarkerRow == Row(Text(<<"T", "a", "g">>), Empty, Empty, Empty)

\* three header rows with empty metadata cells, then the row of the day marker
StdHeader == <<EmptyRow, EmptyRow, EmptyRow, MarkerRow>>

StdName == NameOf(<<"0", "3", ".", "0", "3", "-", "0", "7", ".", "0", "3">>)

\* every row shape of the scan
AllShapes ==
    { RDate(D1), RDate(D2), RAct(ActA), RAct(ActB), RAct(<<" ", " ">>),
      RHours(Number(16)), RHours(Number(-3)), RHours(Text(<<"x">>)),
      RHours(Text(<<"i", "n", "f">>)),
      Row(Empty, Text(ActA), Empty, Number(16)),
      Row(DateTime(D2), Text(ActA), Empty, Number(16)) }

\* the row shapes of a well-formed sheet
CoreShapes == { RDate(D1), RDate(D2), RAct(ActA), RAct(ActB), RHours(Number(16)) }

\* the days of a regular grid: a date row, activity rows, an hours row
DayBlocks ==
    { <<RDate(d)>> \o acts \o <<RHours(Number(h))>> :
        d \in {D1, D2},
        acts \in {<<RAct(ActA)>>, <<RAct(ActB), RAct(ActA)>>, <<RAct(ActA), RAct(ActA)>>},
        h \in {16, 15} }

\* a closed day, an activity and an hours cell outside any day, then a
\* second day that the end of the input closes
LateRows ==
    << RDate(D1), RAct(ActA), RHours(Number(16)), RAct(ActB),
       RHours(Number(16)), RDate(D2), RAct(ActA) >>

ScanFiles ==
    { File(StdName, 12, StdHeader \o rows) :
        rows \in SeqsUpTo(AllShapes, MaxRows) \cup SeqsUpTo(CoreShapes, MaxLong)
                 \cup {Flatten(bs) : bs \in SeqsUpTo(DayBlocks, MaxDays)}
                 \cup {LateRows} }

\* the names: a start and an end token DD.MM, each with or without a
\* trailing dot and a two-digit year, the end token also with a dash
TokenPairs ==
    { << <<"0", "3", ".", "0", "3">>, <<"0", "7", ".", "0", "3">> >>,
      << <<"3", "0", ".", "1", "2">>, <<"0", "3", ".", "0", "1">> >>,
      << <<"2", "9", ".", "0", "2">>, <<"0", "1", ".", "0", "3">> >>,
      << <<"3", "1", ".", "0", "2">>, <<"0", "7", ".", "0", "3">> >> }

TokenNames ==
    { NameOf(p[1] \o d1 \o y1 \o sep
             \o (IF e = "dash" THEN Replace(p[2], ".", "-") ELSE p[2]) \o d2 \o y2) :
        p \in TokenPairs,
        d1 \in {<<>>, <<".">>},
        y1 \in {<<>>, <<".", "2", "3">>, <<".", "2", "4">>},
        sep \in { <<"-">>, <<" ", "-", " ">> },
        e \in {"dot", "dash"},
        d2 \in {<<>>, <<".">>},
        y2 \in {<<>>, <<".", "2", "5">>} }

\* names without a pair of date tokens
JunkNames ==
    { NameOf(<<"f", "o", "o">>),
      NameOf(<<"0", "3", ".", "0", "3", ".", "2", "0", "2", "5", "-",
               "0", "7", ".", "0", "3", ".", "2", "0", "2", "5">>) }

OneDay == <<RDate(D1), RAct(ActA), RHours(Number(16))>>

\* every name, on a sheet with the standard header and with or without
\* the year in the metadata cell
NameFiles ==
    { File(n, 12, <<EmptyRow, EmptyRow, RHours(y), MarkerRow>> \o OneDay) :
        n \in TokenNames \cup JunkNames, y \in {Empty, Number(4048)} }

\* a row of a DataFrame of ncols columns
TrimRow(row, ncols) ==
    Row(IF ncols > 1 THEN row.c1 ELSE Empty,
        IF ncols > 2 THEN row.c2 ELSE Empty,
        IF ncols > 7 THEN row.c7 ELSE Empty,
        IF ncols > 11 THEN row.c11 ELSE Empty)

\* the header rows of a sheet: name, course and year cells of any kind
HeaderRows ==
    { <<Row(Empty, Empty, n, Empty), Row(Empty, Empty, c, Empty),
        Row(Empty, Empty, Empty, y)>> :
        n \in {Empty, Text(<<"M", "a", "x", " ", " ", "M">>)},
        c \in {Empty, Text(<<" ">>)},
        y \in {Empty, Number(4048), Number(50), Text(<<"x">>),
               Text(<<"2", "0", "2", "3">>), DateTime(D1)} }

\* sheets of every shape: the first k header rows, then nothing, the marker
\* row, a day, or both; an empty sheet has neither rows nor columns
ShapeFiles ==
    { File(n, IF rows = <<>> THEN 0 ELSE ncols,
           [j \in 1..Len(rows) |-> TrimRow(rows[j], ncols)]) :
        n \in {StdName, NameOf(<<"2", "9", ".", "0", "2", ".", "2", "4", "-",
                                 "0", "1", ".", "0", "3", ".", "2", "4">>)},
        ncols \in {2, 8, 12},
        rows \in { SubSeq(h, 1, k) \o t :
                     h \in HeaderRows, k \in 0..3,
                     t \in {<<>>, <<MarkerRow>>, OneDay, <<MarkerRow>> \o OneDay} } }

\* the files of a directory with several files
BatchFiles ==
    { File(StdName, 12, StdHeader \o OneDay),
      File(NameOf(<<"0", "3", ".", "0", "3", ".", "2", "3", "-",
                    "0", "7", ".", "0", "3", ".", "2", "3">>),
           12, StdHeader \o <<RDate(D2), RAct(ActB)>>),
      File(NameOf(<<"1", "0", ".", "0", "3", "-", "1", "4", ".", "0", "3">>),
           12, StdHeader \o <<RDate(D1), RAct(ActA), RHours(Text(<<"i", "n", "f">>))>>),
      File(NameOf(<<"3", "1", ".", "0", "2", "-", "0", "7", ".", "0", "3">>),
           12, StdHeader \o OneDay),
      File(NameOf(<<"f", "o", "o">>), 12, StdHeader \o OneDay),
      File(NameOf(<<"1", "7", ".", "0", "3", "-", "2", "1", ".", "0", "3">>),
           12, <<RDate(D1)>>),
      File(NameOf(<<"2", "4", ".", "0", "3", "-", "2", "8", ".", "0", "3">>),
           12, StdHeader \o <<RAct(ActB)>> \o OneDay),
      File(NameOf(<<"x", "_", "0", "3", ".", "0", "3", "-", "0", "7", ".", "0", "3">>),
           12, StdHeader \o <<RDate(D2), RAct(ActA), RAct(ActB)>>) }

\* the characters of the names, in code point order
CodePoints ==
    <<" ", "-", ".", "0", "1", "2", "3", "4", "5", "6", "7", "8", "9", "A", "U",
      "_", "a", "b", "c", "d", "e", "f", "g", "h", "i", "l", "m", "n", "o", "r",
      "s", "u", "w", "x">>

Ord(c) == CHOOSE k \in 1..Len(CodePoints) : CodePoints[k] = c

\* str < str
RECURSIVE StrLess(_, _)
StrLess(a, b) ==
    IF b = <<>> THEN FALSE
    ELSE IF a = <<>> THEN TRUE
    ELSE IF a[1] = b[1] THEN StrLess(Tail(a), Tail(b))
    ELSE Ord(a[1]) < Ord(b[1])

\* line 192: sorted(input_dir.glob(...)), the files of a directory by name
RECURSIVE SortedFiles(_)
SortedFiles(S) ==
    IF S = {} THEN <<>>
    ELSE LET f == CHOOSE x \in S : \A y \in S \ {x} : StrLess(x.name, y.name)
         IN  <<f>> \o SortedFiles(S \ {f})

\* a row with "Tag" inside the text of the marker column, and with an
\* activity and hours of its own
MarkerRowWithCells ==
    Row(Text(<<"1", ".", " ", "T", "a", "g", ":">>), Text(ActA), Empty, Number(16))

\* sheets with cells of days above the marker row: a whole day or a day
\* left open above it, no marker row or one of two kinds, and below it rows
\* that go on with a day, a new day, or a second marker row
MarkerFiles ==
    { File(StdName, 12, pre \o mk \o post) :
        pre \in { <<EmptyRow, EmptyRow, EmptyRow>>,
                  <<RDate(D1), RAct(ActA), EmptyRow>>,
                  <<RDate(D1), RAct(ActA), EmptyRow, RHours(Number(16))>> },
        mk \in { <<>>, <<MarkerRow>>, <<MarkerRowWithCells>> },
        post \in { <<>>,
                   <<RAct(ActB), RHours(Number(16))>>,
                   <<RDate(D2), RAct(ActB), MarkerRowWithCells>>,
                   <<RDate(D2), MarkerRow, RAct(ActB)>> } }

\* the directories with one file, of any kind
SingleFiles == ScanFiles \cup NameFiles \cup ShapeFiles \cup MarkerFiles

\* the directories with up to MaxFiles batch files
BatchDirs == { S \in SUBSET BatchFiles : Cardinality(S) <= MaxFiles }

(***************************************************************************)
(* The state: main()'s loop over the files, and inside it the row scan of  *)
(* convert_excel_to_markdown.                                              *)
(***************************************************************************)
VARIABLES
    excel_files,      \* main: the sorted input files
    idx,              \* main: position of the loop in excel_files (from 1)
    pc,               \* "main": between files, "scan": in the row loop, "done"
    converted_files,  \* main: the output names of the converted files
    failed_files,     \* main: (name, message) of the failed files
    written,          \* output_dir: the write_text calls, (name, content)
    start_dt,         \* convert: the parsed start date
    end_dt,           \* convert: the parsed end date
    iso_week,         \* convert: ISO week of start_dt
    i,                \* convert: the row the loop is at (from 0)
    current_date,     \* convert: date of the open day, or None
    daily_activities, \* convert: activity buffer
    pending_hours,    \* convert: hours of the day being closed, or None
    md_lines          \* convert: the lines of the document

vars ==
    <<excel_files, idx, pc, converted_files, failed_files, written, start_dt,
      end_dt, iso_week, i, current_date, daily_activities, pending_hours, md_lines>>

mainVars == <<excel_files, converted_files, failed_files, written>>

\* the variables of a call that outlive it, as attributes of the converter would
KeepFrame ==
    UNCHANGED <<start_dt, end_dt, iso_week, i, current_date, daily_activities,
                pending_hours, md_lines>>

\* no call of convert_excel_to_markdown is active
NoFrame ==
    /\ start_dt' = None
    /\ end_dt' = None
    /\ iso_week' = 0
    /\ i' = 0
    /\ current_date' = None
    /\ daily_activities' = <<>>
    /\ pending_hours' = None
    /\ md_lines' = <<>>

Init ==
    /\ excel_files \in {SortedFiles({f}) : f \in SingleFiles}
                         \cup {SortedFiles(S) : S \in BatchDirs}
    /\ idx = 1
    /\ pc = "main"
    /\ converted_files = <<>>
    /\ failed_files = <<>>
    /\ written = <<>>
    /\ start_dt = None
    /\ end_dt = None
    /\ iso_week = 0
    /\ i = 0
    /\ current_date = None
    /\ daily_activities = <<>>
    /\ pending_hours = None
    /\ md_lines = <<>>

\* the file the loop of main() is at
CurFile == excel_files[idx]

\* the closure variables of the scan, as a record
Loc ==
    [current_date |-> current_date, daily_activities |-> daily_activities,
     pending_hours |-> pending_hours, md_lines |-> md_lines, err |-> ""]

\* an exception that is not caught per file: the loop ends with the failing file
AbortBatch(k) == Len(excel_files) + 1

\* lines 213-215: the loop goes on with the next file
AfterError(k) == k + 1

\* lines 194-197: nothing to convert
NoFiles ==
    /\ pc = "main"
    /\ excel_files = <<>>
    /\ pc' = "done"
    /\ UNCHANGED <<excel_files, idx, converted_files, failed_files, written,
                   start_dt, end_dt, iso_week, i, current_date, daily_activities,
                   pending_hours, md_lines>>

\* lines 205-207 and 67-124: the call enters the row loop
ConvertStart ==
    /\ pc = "main"
    /\ idx <= Len(excel_files)
    /\ \E h \in {ConvertHead(CurFile)} :
           /\ h.err = ""
           /\ start_dt' = h.start_dt
           /\ end_dt' = h.end_dt
           /\ iso_week' = h.iso_week
           /\ i' = h.data_start_row
           /\ md_lines' = h.md_lines
    /\ pc' = "scan"
    /\ current_date' = None
    /\ daily_activities' = <<>>
    /\ pending_hours' = None
    /\ UNCHANGED <<idx, mainVars>>

\* lines 205-207, 67-98 and 213-215: the call raises before the row loop
ConvertStartRaises ==
    /\ pc = "main"
    /\ idx <= Len(excel_files)
    /\ \E h \in {ConvertHead(CurFile)} :
           /\ h.err # ""
           /\ failed_files' = Append(failed_files,
                                     [name |-> CurFile.name, msg |-> h.err])
    /\ idx' = AfterError(idx)
    /\ NoFrame
    /\ UNCHANGED <<excel_files, pc, converted_files, written>>

\* lines 146-173: one row
ScanRow ==
    /\ pc = "scan"
    /\ i < NRows(CurFile)
    /\ \E r \in {ProcessRow(CurFile, Loc, CurFile.rows[i + 1])} :
           /\ r.err = ""
           /\ current_date' = r.current_date
           /\ daily_activities' = r.daily_activities
           /\ pending_hours' = r.pending_hours
           /\ md_lines' = r.md_lines
    /\ i' = i + 1
    /\ UNCHANGED <<idx, pc, start_dt, end_dt, iso_week, mainVars>>

\* lines 146-173 and 213-215: flush_day raises on a row
ScanRowRaises ==
    /\ pc = "scan"
    /\ i < NRows(CurFile)
    /\ \E r \in {ProcessRow(CurFile, Loc, CurFile.rows[i + 1])} :
           /\ r.err # ""
           /\ failed_files' = Append(failed_files,
                                     [name |-> CurFile.name, msg |-> r.err])
    /\ idx' = AfterError(idx)
    /\ pc' = "main"
    /\ NoFrame
    /\ UNCHANGED <<excel_files, converted_files, written>>

\* lines 175-180 and 208-211: the last flush_day, the return, the write
ConvertReturn ==
    /\ pc = "scan"
    /\ i >= NRows(CurFile)
    /\ \E r \in {FinalFlush(current_date, daily_activities, pending_hours, md_lines)},
          out \in {OutFilename(start_dt, end_dt, iso_week)} :
           /\ r.err = ""
           /\ written' = Append(written, [name |-> out, content |-> StripLines(r.md_lines)])
           /\ converted_files' = Append(converted_files, out)
    /\ idx' = idx + 1
    /\ pc' = "main"
    /\ NoFrame
    /\ UNCHANGED <<excel_files, failed_files>>

\* lines 217-234: the loop is over
Summary ==
    /\ pc = "main"
    /\ excel_files # <<>>
    /\ idx > Len(excel_files)
    /\ pc' = "done"
    /\ UNCHANGED <<excel_files, idx, converted_files, failed_files, written,
                   start_dt, end_dt, iso_week, i, current_date, daily_activities,
                   pending_hours, md_lines>>

Next ==
    \/ NoFiles
    \/ ConvertStart
    \/ ConvertStartRaises
    \/ ScanRow
    \/ ScanRowRaises
    \/ ConvertReturn
    \/ Summary

Spec == Init /\ [][Next]_vars

(***************************************************************************)
(* The document read back: the day sections of a list of lines.  A section *)
(* is its date, its bullet texts in order and its hours (<<n>>, or None    *)
(* when it has no hours line).  A bullet or hours line before any heading  *)
(* gives a section without a date.                                         *)
(***************************************************************************)
Front(s) == SubSeq(s, 1, Len(s) - 1)

Last(s) == s[Len(s)]

Section(date, acts, hours) == [date |-> date, acts |-> acts, hours |-> hours]

AddLine(secs, l) ==
    IF l.t = "h2" THEN Append(secs, Section(l.d, <<>>, None))
    ELSE IF l.t = "bullet"
    THEN IF secs = <<>> THEN <<Section(None, <<l.s>>, None)>>
         ELSE [secs EXCEPT ![Len(secs)].acts = Append(@, l.s)]
    ELSE IF l.t = "hours"
    THEN IF secs = <<>> THEN <<Section(None, <<>>, <<l.n>>)>>
         ELSE [secs EXCEPT ![Len(secs)].hours = <<l.n>>]
    ELSE secs

RECURSIVE SectionsOf(_)
SectionsOf(lines) ==
    IF lines = <<>> THEN <<>>
    ELSE CHOOSE r \in {AddLine(secs, Last(lines)) :
                           secs \in {SectionsOf(Front(lines))}} : TRUE

(***************************************************************************)
(* The rows as the claims read them.  The day opened by the date row p     *)
(* lasts until the first later row with a date or an hours cell, or until  *)
(* the input ends.                                                         *)
(***************************************************************************)
\* the rows the loop scans: those after the marker row, all of them without one
DataRows(f) == SubSeq(f.rows, DataStartRow(f) + 1, NRows(f))

\* the rows the running conversion has scanned so far
Scanned == SubSeq(CurFile.rows, DataStartRow(CurFile) + 1, i)

FailedNames == {failed_files[k].name : k \in 1..Len(failed_files)}

\* the inputs of the written documents, in the order of the writes
ConvertedInputs ==
    SelectSeq(SubSeq(excel_files, 1, idx - 1), LAMBDA f : f.name \notin FailedNames)

IsDateRow(row) == row.c1.t = "DateTime"

IsHoursRow(row) == ~IsDateRow(row) /\ row.c11.t # "Empty"

\* the activity of a row, whitespace-normalised; <<>> when it has none
ActivityOf(row) == IF IsDateRow(row) THEN <<>> ELSE clean_text(row.c2)

\* the whole hours of a number kept as twice its value
WholeHours(v) ==
    CHOOSE n \in -64..64 :
        \/ v >= 0 /\ 2 * n <= v /\ v < 2 * n + 2
        \/ v < 0 /\ 2 * n >= v /\ v > 2 * n - 2

\* the hours an hours cell shows: <<n>>, or None when it is no number
HoursShown(cell) ==
    IF cell.t = "Number" THEN <<WholeHours(cell.v)>>
    ELSE IF cell.t = "Text" /\ AllDigits(StripSpaces(cell.s))
    THEN <<DecVal(StripSpaces(cell.s))>>
    ELSE None

\* the row that closes the day opened at row p, Len(rows) + 1 for the end
CloseOf(rows, p) ==
    LET later == {q \in (p + 1)..Len(rows) : IsDateRow(rows[q]) \/ IsHoursRow(rows[q])}
    IN  IF later = {} THEN Len(rows) + 1
        ELSE CHOOSE q \in later : \A r \in later : q <= r

\* the last row whose activity belongs to the day opened at p: an hours row
\* that closes the day gives its own activity to it
LastRowOf(rows, p) ==
    CHOOSE r \in {IF q <= Len(rows) /\ IsHoursRow(rows[q]) THEN q ELSE q - 1 :
                      q \in {CloseOf(rows, p)}} : TRUE

\* the activities of the day opened at p, in row order
DayActs(rows, p) ==
    SelectSeq([k \in 1..(LastRowOf(rows, p) - p) |-> ActivityOf(rows[p + k])],
              LAMBDA t : t # <<>>)

\* the hours of the day opened at p
DayHours(rows, p) ==
    CHOOSE r \in {IF q <= Len(rows) /\ IsHoursRow(rows[q])
                  THEN HoursShown(rows[q].c11) ELSE None :
                      q \in {CloseOf(rows, p)}} : TRUE

ExpectedSection(rows, p) == Section(rows[p].c1.d, DayActs(rows, p), DayHours(rows, p))

\* the date rows of the days that are written: those with an activity that
\* are closed, and at the end of the input (final) also the open one
EmittedDays(rows, final) ==
    SelectSeq([p \in 1..Len(rows) |-> p],
              LAMBDA p : /\ IsDateRow(rows[p])
                         /\ DayActs(rows, p) # <<>>
                         /\ (final \/ CloseOf(rows, p) <= Len(rows)))

ExpectedSections(rows, final) ==
    CHOOSE r \in {[k \in 1..Len(e) |-> ExpectedSection(rows, e[k])] :
                      e \in {EmittedDays(rows, final)}} : TRUE

\* the date row of the day that the hours cell of row q closes, 0 without one
OpenBefore(rows, q) ==
    LET ps == {p \in 1..(q - 1) : IsDateRow(rows[p]) /\ CloseOf(rows, p) = q}
    IN  IF ps = {} THEN 0 ELSE CHOOSE p \in ps : TRUE

(***************************************************************************)
(* C1: regular grids.                                                      *)
(***************************************************************************)
IsActRow(row) == ~IsDateRow(row) /\ row.c11.t = "Empty" /\ ActivityOf(row) # <<>>

IsNumRow(row) == ~IsDateRow(row) /\ row.c2.t = "Empty" /\ row.c11.t = "Number"

IsPlainDateRow(row) == IsDateRow(row) /\ row.c2.t = "Empty" /\ row.c11.t = "Empty"

\* the number of activity rows from row 2 on
ActRun(rows) ==
    CHOOSE m \in 0..(Len(rows) - 1) :
        /\ \A k \in 2..(m + 1) : IsActRow(rows[k])
        /\ (m + 2 > Len(rows) \/ ~IsActRow(rows[m + 2]))

\* rows read as n days, each a date row, one or more activity rows and a row
\* with a number in the hours cell: whether they are that, and the days
RECURSIVE RegularDays(_)
RegularDays(rows) ==
    IF rows = <<>> THEN [ok |-> TRUE, days |-> <<>>]
    ELSE IF ~IsPlainDateRow(rows[1]) THEN [ok |-> FALSE, days |-> <<>>]
    ELSE LET n == ActRun(rows)
         IN  IF n = 0 \/ n + 2 > Len(rows) \/ ~IsNumRow(rows[n + 2])
             THEN [ok |-> FALSE, days |-> <<>>]
             ELSE LET rest == RegularDays(SubSeq(rows, n + 3, Len(rows)))
                  IN  [ok |-> rest.ok,
                       days |-> <<Section(rows[1].c1.d,
                                          [k \in 1..n |-> ActivityOf(rows[k + 1])],
                                          <<WholeHours(rows[n + 2].c11.v)>>)>>
                                \o rest.days]

\* C1: when the scanned rows are n days, each a date row, one or more rows
\* with a non-empty activity and a row with a numeric hours cell, the document
\* has exactly n day sections in the order of the rows, the k-th with the
\* k-th day's date, its activities in their order and its own hours (shown
\* as whole hours); this holds after each day's hours row and in the
\* document that is written.
C1_RegularGridSections ==
    /\ pc = "scan" =>
           \A r \in {RegularDays(Scanned)} :
               r.ok => SectionsOf(md_lines) = r.days
    /\ \A k \in 1..Len(written) :
           \A r \in {RegularDays(DataRows(ConvertedInputs[k]))} :
               r.ok => SectionsOf(written[k].content) = r.days

\* a written document of two regular days with different hours, the first
\* with two different activities
C1_TwoDaysWritten ==
    \E k \in 1..Len(written) :
        \E r \in {RegularDays(DataRows(ConvertedInputs[k]))} :
            /\ r.ok
            /\ Len(r.days) = 2
            /\ Len(r.days[1].acts) = 2
            /\ r.days[1].acts[1] # r.days[1].acts[2]
            /\ r.days[1].hours # r.days[2].hours
            /\ SectionsOf(written[k].content) = r.days

(***************************************************************************)
(* C2: only days with a date and an activity are written.                  *)
(***************************************************************************)
WellFormed(secs) ==
    \A k \in 1..Len(secs) :
        /\ secs[k].date # None
        /\ secs[k].acts # <<>>
        /\ \A j \in 1..Len(secs[k].acts) : secs[k].acts[j] # <<>>

DatesOf(secs) == [k \in 1..Len(secs) |-> secs[k].date]

EmittedDates(rows, final) ==
    CHOOSE r \in {[k \in 1..Len(e) |-> rows[e[k]].c1.d] :
                      e \in {EmittedDays(rows, final)}} : TRUE

\* C2: at every row of the scan and in every written document, each day
\* section has a date and at least one activity, none of them empty, and the
\* sections are, in order, the days that had a non-empty activity before
\* they were closed: a day closed without one (by an hours cell, by the next
\* date or by the end of the input) has no section, with or without hours.
C2_OnlyDaysWithActivities ==
    /\ pc = "scan" =>
           \A secs \in {SectionsOf(md_lines)} :
               WellFormed(secs) /\ DatesOf(secs) = EmittedDates(Scanned, FALSE)
    /\ \A k \in 1..Len(written) :
           \A secs \in {SectionsOf(written[k].content)} :
               /\ WellFormed(secs)
               /\ DatesOf(secs) = EmittedDates(DataRows(ConvertedInputs[k]), TRUE)

\* a day was closed by a numeric hours cell without any activity, and the
\* document has the section of another day
C2_EmptyDayWithHours ==
    /\ pc = "scan"
    /\ SectionsOf(md_lines) # <<>>
    /\ \E p \in 1..Len(Scanned) :
           /\ IsDateRow(Scanned[p])
           /\ CloseOf(Scanned, p) <= Len(Scanned)
           /\ DayHours(Scanned, p) # None
           /\ DayActs(Scanned, p) = <<>>

(***************************************************************************)
(* C3: activities before the first date.                                   *)
(***************************************************************************)
NoDateIn(rows) == \A k \in 1..Len(rows) : ~IsDateRow(rows[k])

\* some row with an activity comes before every date row
IdleActivity(rows) ==
    \E k \in 1..Len(rows) : ActivityOf(rows[k]) # <<>> /\ NoDateIn(SubSeq(rows, 1, k))

\* C3: when an activity cell is scanned before any date cell, no section is
\* made for it and no day is open while there is no date; the sections of
\* the document are those of the days with the activities of their own rows
\* only, so the first day does not receive it; and the row of such an
\* activity does not fail.
C3_IdleActivityIgnored ==
    /\ (pc = "scan" /\ IdleActivity(Scanned)) =>
           /\ NoDateIn(Scanned) => (SectionsOf(md_lines) = <<>> /\ current_date = None)
           /\ SectionsOf(md_lines) = ExpectedSections(Scanned, FALSE)
    /\ (/\ pc = "scan"
        /\ i < NRows(CurFile)
        /\ NoDateIn(Scanned)
        /\ ActivityOf(CurFile.rows[i + 1]) # <<>>) =>
           ProcessRow(CurFile, Loc, CurFile.rows[i + 1]).err = ""
    /\ \A k \in 1..Len(written) :
           \A rows \in {DataRows(ConvertedInputs[k])} :
               IdleActivity(rows) =>
                   SectionsOf(written[k].content) = ExpectedSections(rows, TRUE)

\* a written document whose first scanned row had an activity, before any
\* date: the document has a section, and none has that activity
C3_IdleActivityThenDay ==
    \E k \in 1..Len(written) :
        \E rows \in {DataRows(ConvertedInputs[k])}, secs \in {SectionsOf(written[k].content)} :
            /\ rows # <<>>
            /\ ActivityOf(rows[1]) # <<>>
            /\ secs # <<>>
            /\ \A n \in 1..Len(secs) : \A j \in 1..Len(secs[n].acts) :
                   secs[n].acts[j] # ActivityOf(rows[1])

(***************************************************************************)
(* C4, C5: the dates of the file name.                                     *)
(***************************************************************************)
\* C4: whenever the two tokens of a file name parse to dates, the start
\* date is not after the end date.
C4_StartNotAfterEnd == pc = "scan" => DateLE(start_dt, end_dt)

\* the year 20YY that the start token of the name carries: the stem reads
\* _DD.MM.YY and then the dash; None for a token DD.MM
StartTokenYear(name) ==
    LET b == Stem(name)
        ps == {p \in 1..Len(b) :
                  /\ b[p] = "_"
                  /\ TwoDigits(b, p + 1) /\ At(b, p + 3) = "." /\ TwoDigits(b, p + 4)
                  /\ At(b, p + 6) = "." /\ TwoDigits(b, p + 7)
                  /\ At(b, SkipSpaces(b, p + 9)) = "-"}
    IN  IF ps = {} THEN None
        ELSE LET p == CHOOSE q \in ps : \A r \in ps : q <= r
             IN  <<2000 + DecVal(SubSeq(b, p + 7, p + 8))>>

\* the year 20YY that the end token carries: the stem ends with the dash
\* and DD.MM.YY or DD-MM.YY; None for a token DD.MM
EndTokenYear(name) ==
    LET b == Stem(name)
        n == Len(b)
    IN  IF /\ TwoDigits(b, n - 1) /\ At(b, n - 2) = "."
           /\ TwoDigits(b, n - 4) /\ At(b, n - 5) \in {".", "-"}
           /\ TwoDigits(b, n - 7)
           /\ \E q \in 1..n : b[q] = "-" /\ SkipSpaces(b, q + 1) = n - 7
        THEN <<2000 + DecVal(SubSeq(b, n - 1, n))>>
        ELSE None

\* C5: a token DD.MM.YY of the file name gives a date in its own year 20YY,
\* whatever year the sheet or the name resolves to.
C5_TokenOwnYear ==
    pc = "scan" =>
        /\ StartTokenYear(CurFile.name) # None =>
               start_dt[1] = StartTokenYear(CurFile.name)[1]
        /\ EndTokenYear(CurFile.name) # None =>
               end_dt[1] = EndTokenYear(CurFile.name)[1]

(***************************************************************************)
(* C6: the batch.                                                          *)
(***************************************************************************)
\* C6: each file that the loop has passed is in exactly one of the two
\* lists, so that in the end successes plus failures is the number of
\* inputs; a document is written for the converted files only; a file whose
\* conversion raises (no pair of date tokens in the name, an invalid date,
\* or anything else) is recorded once with its name and the message, and
\* the files after it are converted or recorded as well.
C6_BatchIsolation ==
    /\ Len(converted_files) + Len(failed_files) = idx - 1
    /\ Len(written) = Len(converted_files)
    /\ Cardinality(FailedNames) = Len(failed_files)
    /\ pc = "done" =>
           /\ Len(converted_files) + Len(failed_files) = Len(excel_files)
           /\ \A j \in 1..Len(excel_files) :
                  \A c \in {Convert(excel_files[j])} :
                      IF c.err # ""
                      THEN \E k \in 1..Len(failed_files) :
                               failed_files[k] = [name |-> excel_files[j].name,
                                                  msg |-> c.err]
                      ELSE excel_files[j].name \notin FailedNames

\* a batch of two files has ended: the first failed, the second was written
C6_FailureThenSuccess ==
    /\ pc = "done"
    /\ Len(excel_files) = 2
    /\ Len(failed_files) = 1
    /\ failed_files[1].name = excel_files[1].name
    /\ Len(written) = 1

(***************************************************************************)
(* C7, C8, C9: how a day ends.                                             *)
(***************************************************************************)
\* the hours row that closed the last day, when no date row comes after it
HoursCloses(rows) ==
    {q \in 1..Len(rows) :
        /\ IsHoursRow(rows[q])
        /\ OpenBefore(rows, q) # 0
        /\ NoDateIn(SubSeq(rows, q + 1, Len(rows)))}

\* the sections secs, given that the hours row q closed a day of rows and no
\* date row followed: that day's section is the last one, with the
\* activities of its rows up to q only, and there are as many sections as
\* days written, whatever activity and hours cells came after q
ClosedAt(rows, q, secs) ==
    \A p \in {OpenBefore(rows, q)} :
        /\ Len(secs) = Len(EmittedDays(rows, FALSE))
        /\ DayActs(rows, p) # <<>> =>
               (secs # <<>> /\ Last(secs) = ExpectedSection(rows, p))

\* C7: once an hours cell has been scanned while a day was open, and until
\* the next date row, no day is open; the day was written at that row with
\* the activities up to and including that row; the activity cells of the
\* rows after it are in no section and a further hours cell adds no section.
C7_HoursCloseDay ==
    /\ pc = "scan" =>
           \A q \in HoursCloses(Scanned) :
               current_date = None /\ ClosedAt(Scanned, q, SectionsOf(md_lines))
    /\ \A k \in 1..Len(written) :
           \A rows \in {DataRows(ConvertedInputs[k])} :
               \A q \in HoursCloses(rows) :
                   ClosedAt(rows, q, SectionsOf(written[k].content))

\* after the hours row that closed a day with an activity came a row with
\* an activity and a row with hours, and the document has one section
C7_CellsAfterClose ==
    /\ pc = "scan"
    /\ \E q \in HoursCloses(Scanned) :
           /\ Len(Scanned) >= q + 2
           /\ ActivityOf(Scanned[q + 1]) # <<>>
           /\ IsHoursRow(Scanned[q + 2])
           /\ DayActs(Scanned, OpenBefore(Scanned, q)) # <<>>
    /\ Len(SectionsOf(md_lines)) = 1

\* the day that is open when the input ends: no date or hours row after it
OpenAtEnd(rows) ==
    {p \in 1..Len(rows) : IsDateRow(rows[p]) /\ CloseOf(rows, p) = Len(rows) + 1}

\* C8: in a written document, the day that was open when the input ended
\* is the last section, with its activities and without hours, if it has
\* an activity, and has no section if it has none; so the document has a
\* section for every day with a date and an activity.
C8_FinalFlush ==
    \A k \in 1..Len(written) :
        \A rows \in {DataRows(ConvertedInputs[k])},
           secs \in {SectionsOf(written[k].content)} :
            /\ Len(secs) = Len(EmittedDays(rows, TRUE))
            /\ \A p \in OpenAtEnd(rows) :
                   IF DayActs(rows, p) # <<>>
                   THEN /\ secs # <<>>
                        /\ Last(secs) = Section(rows[p].c1.d, DayActs(rows, p), None)
                   ELSE Len(secs) = Len(EmittedDays(rows, FALSE))

\* a written document of a day closed by hours and a day with an activity
\* that was open at the end: two sections, the last without hours
C8_OpenDayWritten ==
    \E k \in 1..Len(written) :
        \E rows \in {DataRows(ConvertedInputs[k])},
           secs \in {SectionsOf(written[k].content)} :
            /\ \E p \in OpenAtEnd(rows) : DayActs(rows, p) # <<>>
            /\ Len(secs) = 2
            /\ secs[1].hours # None
            /\ secs[2].hours = None

\* the file of the input directory with a name
FileNamed(name) ==
    excel_files[CHOOSE j \in 1..Len(excel_files) : excel_files[j].name = name]

\* the row has an hours cell that float() rejects
BadHoursRow(row) == IsHoursRow(row) /\ ~Float(row.c11).ok

\* C9: a row whose hours cell is not a number, scanned while a day is open,
\* does not fail; after it no day is open and the day, if it has an
\* activity, is the last section, without hours; and a conversion that
\* fails in the row loop has an hours cell that float() accepts.
C9_UnparseableHours ==
    /\ (/\ pc = "scan"
        /\ i < NRows(CurFile)
        /\ current_date # None
        /\ BadHoursRow(CurFile.rows[i + 1])) =>
           ProcessRow(CurFile, Loc, CurFile.rows[i + 1]).err = ""
    /\ pc = "scan" =>
           \A q \in HoursCloses(Scanned) :
               BadHoursRow(Scanned[q]) =>
                   /\ current_date = None
                   /\ \A p \in {OpenBefore(Scanned, q)}, secs \in {SectionsOf(md_lines)} :
                          DayActs(Scanned, p) # <<>> =>
                              /\ secs # <<>>
                              /\ Last(secs) = Section(Scanned[p].c1.d,
                                                      DayActs(Scanned, p), None)
    /\ \A k \in 1..Len(failed_files) :
           \A f \in {FileNamed(failed_files[k].name)} :
               ConvertHead(f).err = "" =>
                   \E j \in 1..NRows(f) : IsHoursRow(f.rows[j]) /\ ~BadHoursRow(f.rows[j])

\* the last scanned row closed a day with an activity by an hours cell that
\* is not a number: the day is the last section, without hours
C9_DayClosedWithoutHours ==
    /\ pc = "scan"
    /\ current_date = None
    /\ \E q \in HoursCloses(Scanned) :
           /\ q = Len(Scanned)
           /\ BadHoursRow(Scanned[q])
           /\ DayActs(Scanned, OpenBefore(Scanned, q)) # <<>>
    /\ SectionsOf(md_lines) # <<>>
    /\ Last(SectionsOf(md_lines)).hours = None

(***************************************************************************)
(* C10: sheets without the header cells.                                   *)
(***************************************************************************)
\* the name has a pair of tokens that are dates in the year of the name
ParseableName(f) ==
    \A p \in {parse_dates_from_filename(f.name)} :
        /\ p.start_raw # None
        /\ parse_date(p.start_raw, YearFromName(f)).ok
        /\ parse_date(p.end_raw, YearFromName(f)).ok

\* the cells of name, course and year are outside the sheet or empty
HeaderAbsentOrEmpty(f) ==
    /\ (f.ncols <= 7 \/ NRows(f) <= 0 \/ IsNa(f.rows[1].c7))
    /\ (f.ncols <= 7 \/ NRows(f) <= 1 \/ IsNa(f.rows[2].c7))
    /\ (f.ncols <= 11 \/ NRows(f) <= 2 \/ IsNa(f.rows[3].c11))

NoInfiniteHours(f) ==
    \A j \in 1..NRows(f) : ~(Float(f.rows[j].c11).ok /\ Float(f.rows[j].c11).inf)

\* C10: a file with a parseable name whose header cells are outside the
\* sheet or empty does not fail, and its document has the default name, the
\* default course and the year of the fallback chain.
C10_HeaderFallback ==
    /\ \A k \in 1..Len(failed_files) :
           \A f \in {FileNamed(failed_files[k].name)} :
               ~(ParseableName(f) /\ HeaderAbsentOrEmpty(f) /\ NoInfiniteHours(f))
    /\ (pc = "scan" /\ HeaderAbsentOrEmpty(CurFile)) =>
           /\ md_lines[3].s = DefaultName
           /\ md_lines[4].s = DefaultCourse
           /\ md_lines[5].n = YearFromName(CurFile)

(***************************************************************************)
(* C11: the year.                                                          *)
(***************************************************************************)
\* the metadata cell of the year is in the sheet and not empty
YearCellPresent(f) == f.ncols > 11 /\ NRows(f) >= 3 /\ NotNa(f.rows[3].c11)

\* the year of the chain: the metadata cell when it is present and int()
\* converts it, else 2024 for a name with ".24", else the default year
ChainYear(f) ==
    IF YearCellPresent(f) /\ IntOfCell(f.rows[3].c11).ok
    THEN IntOfCell(f.rows[3].c11).v
    ELSE IF Contains(f.name, <<".", "2", "4">>) THEN 2024
    ELSE DefaultYear

\* C11: for every file the loop has taken up the year is resolved, and it
\* is the year of the chain (metadata cell, then ".24" in the name, then the
\* default); the year line of a document that is being built shows it.
C11_YearChain ==
    /\ \A j \in 1..(idx - 1) :
           \A y \in {ActualYear(excel_files[j])} :
               y.err = "" /\ y.year = ChainYear(excel_files[j])
    /\ pc = "scan" => md_lines[5].n = ChainYear(CurFile)

(***************************************************************************)
(* C12: the hours line.                                                    *)
(***************************************************************************)
\* floor of a number kept as twice its value
FloorHours(v) == CHOOSE n \in -64..64 : 2 * n <= v /\ v < 2 * n + 2

\* C12: the section of every day that a numeric hours cell closed shows the
\* floor of that number.
C12_HoursFloored ==
    pc = "scan" =>
        \A secs \in {SectionsOf(md_lines)}, e \in {EmittedDays(Scanned, FALSE)} :
            \A k \in 1..Len(e) :
                \A q \in {CloseOf(Scanned, e[k])} :
                    (IsHoursRow(Scanned[q]) /\ Scanned[q].c11.t = "Number") =>
                        /\ k <= Len(secs)
                        /\ secs[k].hours = <<FloorHours(Scanned[q].c11.v)>>

(***************************************************************************)
(* C13: the output file name.                                              *)
(***************************************************************************)
\* the day of the week of a date, Monday 1 to Sunday 7
WeekDay(d) == ((Ymd2Ord(d) + 6) % 7) + 1

\* the ISO week of a date: the week of the year that holds the Thursday of
\* the date's week, counted from that year's first Thursday
IsoWeekOf(d) ==
    LET thursday == Ymd2Ord(d) - WeekDay(d) + 4
        y == IF thursday < Ymd2Ord(<<d[1], 1, 1>>) THEN d[1] - 1
             ELSE IF thursday >= Ymd2Ord(<<d[1] + 1, 1, 1>>) THEN d[1] + 1
             ELSE d[1]
    IN  ((thursday - Ymd2Ord(<<y, 1, 1>>)) \div 7) + 1

\* the ISO year of a date
IsoYearOf(d) ==
    LET thursday == Ymd2Ord(d) - WeekDay(d) + 4
    IN  IF thursday < Ymd2Ord(<<d[1], 1, 1>>) THEN d[1] - 1
        ELSE IF thursday >= Ymd2Ord(<<d[1] + 1, 1, 1>>) THEN d[1] + 1
        ELSE d[1]

\* a number below 100 as two characters
TwoChars(n) == <<Digits[(n \div 10) + 1], Digits[(n % 10) + 1]>>

\* a year of four digits as four characters
FourChars(n) == TwoChars(n \div 100) \o TwoChars(n % 100)

\* {start.year}-KW{isoWeek:02d}-Ausbildungsnachweis-{start:DD.MM}-{end:DD.MM}.md
CanonicalName(s, e) ==
    FourChars(s[1]) \o <<"-", "K", "W">> \o TwoChars(IsoWeekOf(s))
    \o <<"-", "A", "u", "s", "b", "i", "l", "d", "u", "n", "g", "s", "n", "a", "c",
         "h", "w", "e", "i", "s", "-">>
    \o TwoChars(s[3]) \o <<".">> \o TwoChars(s[2]) \o <<"-">>
    \o TwoChars(e[3]) \o <<".">> \o TwoChars(e[2]) \o <<".", "m", "d">>

ExampleName ==
    <<"2", "0", "2", "5", "-", "K", "W", "1", "0", "-", "A", "u", "s", "b", "i",
      "l", "d", "u", "n", "g", "s", "n", "a", "c", "h", "w", "e", "i", "s", "-",
      "0", "3", ".", "0", "3", "-", "0", "7", ".", "0", "3", ".", "m", "d">>

\* C13: every written document has the name made of the calendar year of
\* the start date, its ISO week in two digits and DD.MM of start and end, and
\* that name is the one in converted_files; the week of a conversion is the
\* ISO week of its start date; AusbildungsnachweisU27_03.03-07.03.xlsx
\* without a year in the sheet has the range 03.03.2025 to 07.03.2025, week
\* 10 and the name 2025-KW10-Ausbildungsnachweis-03.03-07.03.md.
C13_OutputFilename ==
    /\ \A k \in 1..Len(written) :
           \A f \in {ConvertedInputs[k]} :
               \A h \in {ConvertHead(f)} :
                   /\ written[k].name = CanonicalName(h.start_dt, h.end_dt)
                   /\ converted_files[k] = written[k].name
                   /\ (f.name = StdName /\ ~YearCellPresent(f)) =>
                          written[k].name = ExampleName
    /\ pc = "scan" =>
           /\ iso_week = IsoWeekOf(start_dt)
           /\ (CurFile.name = StdName /\ ~YearCellPresent(CurFile)) =>
                  /\ start_dt = <<2025, 3, 3>>
                  /\ end_dt = <<2025, 3, 7>>
                  /\ iso_week = 10

\* a written document whose start date is in the first ISO week of the next
\* year: its name has the calendar year and KW01
C13_WeekOfNextYear ==
    \E k \in 1..Len(written) :
        \E h \in {ConvertHead(ConvertedInputs[k])} :
            /\ IsoYearOf(h.start_dt) # h.start_dt[1]
            /\ SubSeq(written[k].name, 1, 9)
                   = FourChars(h.start_dt[1]) \o <<"-", "K", "W", "0", "1">>

(***************************************************************************)
(* C14: a conversion depends on its own file only.                         *)
(***************************************************************************)
\* the result of the running conversion, continued from the row it is at
RestOfScan ==
    CHOOSE c \in {ConvertResult([start_dt |-> start_dt, end_dt |-> end_dt,
                                 iso_week |-> iso_week], r) :
                      r \in {ScanFrom(CurFile, Loc, i)}} : TRUE

\* C14: whatever files came before it in the batch, and however they ended,
\* a file's document and output name, or its error, are those that
\* convert_excel_to_markdown gives for the file alone; between two files no
\* open day, activity, hours or line is left, and a conversion starts its
\* scan with no open day, an empty buffer, no hours and its own eight
\* header lines only.
C14_PureConversion ==
    /\ \A k \in 1..Len(written) :
           \A c \in {Convert(ConvertedInputs[k])} :
               /\ c.err = ""
               /\ written[k] = [name |-> c.out[1], content |-> c.content]
    /\ \A k \in 1..Len(failed_files) :
           Convert(FileNamed(failed_files[k].name)).err = failed_files[k].msg
    /\ pc # "scan" =>
           /\ current_date = None
           /\ daily_activities = <<>>
           /\ pending_hours = None
           /\ md_lines = <<>>
    /\ pc = "scan" =>
           /\ RestOfScan = Convert(CurFile)
           /\ i = DataStartRow(CurFile) =>
                  /\ current_date = None
                  /\ daily_activities = <<>>
                  /\ pending_hours = None
                  /\ Len(md_lines) = 8

\* a batch of two files has ended: the first left a day with an activity
\* open at its end, the second began with an activity before any date, and
\* both were written
C14_SecondAfterOpenDay ==
    /\ pc = "done"
    /\ Len(excel_files) = 2
    /\ Len(written) = 2
    /\ \E p \in OpenAtEnd(DataRows(excel_files[1])) :
           DayActs(DataRows(excel_files[1]), p) # <<>>
    /\ IdleActivity(DataRows(excel_files[2]))
    /\ written[2].content = Convert(excel_files[2]).content

(***************************************************************************)
(* C15: a date row while a day is open.                                    *)
(***************************************************************************)
\* the days of rows that a date row closed
DateClosed(rows) ==
    {p \in 1..Len(rows) :
        /\ IsDateRow(rows[p])
        /\ CloseOf(rows, p) <= Len(rows)
        /\ IsDateRow(rows[CloseOf(rows, p)])}

\* the last date row of rows, 0 without one
LastDateRow(rows) ==
    LET ds == {p \in 1..Len(rows) : IsDateRow(rows[p])}
    IN  IF ds = {} THEN 0 ELSE CHOOSE p \in ds : \A q \in ds : q <= p

\* C15: when a date row has been scanned while a day was open, the
\* sections are, in the order of their date rows, the days with an activity,
\* each with the activities and hours of its own rows only, and the day
\* that the date row closed has no hours; right after such a date row the
\* new day is open with an empty buffer and no hours, and the closed day, if
\* it has an activity, is the last section.
C15_DateClosesOpenDay ==
    /\ (pc = "scan" /\ DateClosed(Scanned) # {}) =>
           \A secs \in {SectionsOf(md_lines)}, e \in {EmittedDays(Scanned, FALSE)} :
               /\ secs = ExpectedSections(Scanned, FALSE)
               /\ \A k \in 1..Len(e) : e[k] \in DateClosed(Scanned) => secs[k].hours = None
               /\ \A p \in DateClosed(Scanned) :
                      CloseOf(Scanned, p) = Len(Scanned) =>
                          /\ current_date = Scanned[Len(Scanned)].c1.d
                          /\ daily_activities = <<>>
                          /\ pending_hours = None
                          /\ DayActs(Scanned, p) # <<>> =>
                                 /\ secs # <<>>
                                 /\ Last(secs) = Section(Scanned[p].c1.d,
                                                         DayActs(Scanned, p), None)
    /\ \A k \in 1..Len(written) :
           \A rows \in {DataRows(ConvertedInputs[k])} :
               DateClosed(rows) # {} =>
                   SectionsOf(written[k].content) = ExpectedSections(rows, TRUE)

\* a written document of two days of different dates, the first closed by
\* the date row of the second: two sections in that order, the first
\* without hours
C15_TwoDaysByDateRow ==
    \E k \in 1..Len(written) :
        \E rows \in {DataRows(ConvertedInputs[k])},
           secs \in {SectionsOf(written[k].content)} :
            /\ Len(secs) = 2
            /\ secs[1].date # secs[2].date
            /\ secs[1].hours = None
            /\ \E p \in DateClosed(rows) :
                   /\ DayActs(rows, p) # <<>>
                   /\ secs[1].date = rows[p].c1.d
                   /\ secs[2].date = rows[CloseOf(rows, p)].c1.d

(***************************************************************************)
(* C16: the marker row.                                                    *)
(***************************************************************************)
\* the number of the first row, from 1, whose marker column holds a text
\* with "Tag"; 0 when no row has one
FirstMarker(f) ==
    LET ms == {j \in 1..NRows(f) :
                  /\ f.ncols > 1
                  /\ f.rows[j].c1.t = "Text"
                  /\ \E k \in 1..(Len(f.rows[j].c1.s) - 2) :
                         SubSeq(f.rows[j].c1.s, k, k + 2) = <<"T", "a", "g">>}
    IN  IF ms = {} THEN 0 ELSE CHOOSE j \in ms : \A k \in ms : j <= k

\* the rows below the first marker row up to row n, all rows up to n
\* without a marker row
BelowMarker(f, n) == SubSeq(f.rows, FirstMarker(f) + 1, n)

\* C16: the scan is never at a row above or at the first marker row; the
\* sections, the open day and its buffer are those of the rows below the
\* first marker row alone (of all rows from the first when there is no
\* marker row), so that the cells above it open, extend and close no day
\* and are in no section.
C16_ScanBelowMarker ==
    /\ pc = "scan" =>
           /\ i >= FirstMarker(CurFile)
           /\ \A rows \in {BelowMarker(CurFile, i)} :
                  /\ SectionsOf(md_lines) = ExpectedSections(rows, FALSE)
                  /\ \A p \in {LastDateRow(rows)} :
                         IF p # 0 /\ CloseOf(rows, p) = Len(rows) + 1
                         THEN /\ current_date = rows[p].c1.d
                              /\ daily_activities = DayActs(rows, p)
                         ELSE current_date = None
    /\ \A k \in 1..Len(written) :
           \A f \in {ConvertedInputs[k]} :
               SectionsOf(written[k].content)
                   = ExpectedSections(BelowMarker(f, NRows(f)), TRUE)

\* a written document of a sheet with a whole day above its marker row and
\* an activity and hours below it: the document has no section
C16_DayAboveMarker ==
    \E k \in 1..Len(written) :
        \E f \in {ConvertedInputs[k]} :
            /\ FirstMarker(f) > 3
            /\ ExpectedSections(SubSeq(f.rows, 1, FirstMarker(f) - 1), FALSE) # <<>>
            /\ \E j \in (FirstMarker(f) + 1)..NRows(f) : ActivityOf(f.rows[j]) # <<>>
            /\ \E j \in (FirstMarker(f) + 1)..NRows(f) : IsHoursRow(f.rows[j])
            /\ SectionsOf(written[k].content) = <<>>

(***************************************************************************)
(* C17: activity and hours in one row.                                     *)
(***************************************************************************)
\* the non-empty activities of the rows a to b, in row order
ActsBetween(rows, a, b) ==
    SelectSeq([k \in 1..(b - a + 1) |-> ActivityOf(rows[a + k - 1])],
              LAMBDA t : t # <<>>)

\* C17: when the row just scanned has no date, a non-empty activity and an
\* hours cell, and a day was open, the last section is that day with the
\* activities of the rows before this one followed by the activity of this
\* row, and with the hours of this row; for a day of a date row and this
\* row alone the section has this activity only.
C17_ActivityBeforeHours ==
    pc = "scan" =>
        \A q \in HoursCloses(Scanned) :
            (q = Len(Scanned) /\ ActivityOf(Scanned[q]) # <<>>) =>
                \A p \in {OpenBefore(Scanned, q)}, secs \in {SectionsOf(md_lines)} :
                    /\ secs # <<>>
                    /\ Last(secs) =
                           Section(Scanned[p].c1.d,
                                   Append(ActsBetween(Scanned, p + 1, q - 1),
                                          ActivityOf(Scanned[q])),
                                   HoursShown(Scanned[q].c11))
                    /\ q = p + 1 => Last(secs).acts = <<ActivityOf(Scanned[q])>>

\* the sheet is a date row and a row with an activity and a number of
\* hours: the document has the day with that activity and those hours
C17_DayOfOneRow ==
    /\ pc = "scan"
    /\ Len(Scanned) = 2
    /\ IsDateRow(Scanned[1])
    /\ ActivityOf(Scanned[2]) # <<>>
    /\ Scanned[2].c11.t = "Number"
    /\ SectionsOf(md_lines)
           = <<Section(Scanned[1].c1.d, <<ActivityOf(Scanned[2])>>,
                       <<WholeHours(Scanned[2].c11.v)>>)>>

(***************************************************************************)
(* C18: no day twice.                                                      *)
(***************************************************************************)
\* the dates of the date rows, in row order
DateCells(rows) ==
    CHOOSE r \in {[k \in 1..Len(ds) |-> ds[k].c1.d] :
                      ds \in {SelectSeq(rows, IsDateRow)}} : TRUE

\* a is b with some elements left out
RECURSIVE IsSubseq(_, _)
IsSubseq(a, b) ==
    IF a = <<>> THEN TRUE
    ELSE IF b = <<>> THEN FALSE
    ELSE IF a[1] = b[1] THEN IsSubseq(Tail(a), Tail(b))
    ELSE IsSubseq(a, Tail(b))

\* C18: at every row of the scan and in every written document, the dates
\* of the sections are the dates of the scanned date rows with some left
\* out, in the same order: each date row has at most one section, and there
\* are no more sections than date rows.
C18_NoDayTwice ==
    /\ pc = "scan" =>
           \A secs \in {SectionsOf(md_lines)}, ds \in {DateCells(Scanned)} :
               IsSubseq(DatesOf(secs), ds) /\ Len(secs) <= Len(ds)
    /\ \A k \in 1..Len(written) :
           \A secs \in {SectionsOf(written[k].content)},
              ds \in {DateCells(DataRows(ConvertedInputs[k]))} :
               IsSubseq(DatesOf(secs), ds) /\ Len(secs) <= Len(ds)

\* a written document of a day that an hours cell closed, with an activity
\* and a date row after it: the day has one section, and there are fewer
\* sections than date rows
C18_ClosedDayOnce ==
    \E k \in 1..Len(written) :
        \E rows \in {DataRows(ConvertedInputs[k])},
           secs \in {SectionsOf(written[k].content)} :
            /\ Len(secs) < Len(DateCells(rows))
            /\ \E p \in 1..Len(rows) :
                   /\ IsDateRow(rows[p])
                   /\ DayActs(rows, p) # <<>>
                   /\ CloseOf(rows, p) <= Len(rows)
                   /\ IsHoursRow(rows[CloseOf(rows, p)])
                   /\ \E a \in (CloseOf(rows, p) + 1)..Len(rows) : ActivityOf(rows[a]) # <<>>
                   /\ \E r \in (CloseOf(rows, p) + 1)..Len(rows) : IsDateRow(rows[r])
                   /\ Cardinality({n \in 1..Len(secs) : secs[n].date = rows[p].c1.d}) = 1

(***************************************************************************)
(* C19: the other cells of a date row.                                     *)
(***************************************************************************)
\* a date row that also holds an activity cell or an hours cell
IsFullDateRow(row) ==
    IsDateRow(row) /\ (row.c2.t # "Empty" \/ row.c11.t # "Empty")

FullDateRows(rows) == {p \in 1..Len(rows) : IsFullDateRow(rows[p])}

\* C19: right after a date row that also holds an activity or hours, the
\* day of that row is open with an empty buffer and no hours, and the
\* sections are those of the days closed so far; in the written document of
\* a sheet with such a row every section has the activities and hours of
\* the rows below its date row only, the row's own cells in none of them.
C19_DateRowOnlyOpensDay ==
    /\ (pc = "scan" /\ Len(Scanned) \in FullDateRows(Scanned)) =>
           /\ current_date = Last(Scanned).c1.d
           /\ daily_activities = <<>>
           /\ pending_hours = None
           /\ SectionsOf(md_lines) = ExpectedSections(Scanned, FALSE)
    /\ \A k \in 1..Len(written) :
           \A rows \in {DataRows(ConvertedInputs[k])} :
               FullDateRows(rows) # {} =>
                   \A secs \in {SectionsOf(written[k].content)},
                      e \in {EmittedDays(rows, TRUE)} :
                       /\ Len(secs) = Len(e)
                       /\ \A n \in 1..Len(e) :
                              secs[n] = Section(rows[e[n]].c1.d, DayActs(rows, e[n]),
                                                DayHours(rows, e[n]))
                       /\ \A p \in FullDateRows(rows) :
                              LastRowOf(rows, p) = p =>
                                  \A n \in 1..Len(e) : e[n] # p

\* a written document of a sheet whose last row holds a date, an activity
\* and hours, below an open day with an activity: the one section is the
\* day above, without hours, and the last row's day is not written
C19_FullDateRowLast ==
    \E k \in 1..Len(written) :
        \E rows \in {DataRows(ConvertedInputs[k])},
           secs \in {SectionsOf(written[k].content)} :
            /\ Len(rows) >= 3
            /\ IsDateRow(Last(rows))
            /\ Last(rows).c2.t # "Empty"
            /\ Last(rows).c11.t # "Empty"
            /\ \E p \in DateClosed(rows) :
                   /\ CloseOf(rows, p) = Len(rows)
                   /\ DayActs(rows, p) # <<>>
                   /\ secs = <<Section(rows[p].c1.d, DayActs(rows, p), None)>>

(***************************************************************************)
(* C20: one output document for each converted input.                      *)
(***************************************************************************)
\* C20: the converted inputs of a batch have output names that differ from
\* one another: no write goes to the name of an earlier write, and the list
\* of converted names, from which the archive is built, has no name twice.
C20_OwnOutputDocument ==
    /\ \A a, b \in 1..Len(written) :
           a # b => written[a].name # written[b].name
    /\ \A a, b \in 1..Len(converted_files) :
           a # b => converted_files[a] # converted_files[b]

=============================================================================
